---- MODULE Spec2Model ----
(***************************************************************************)
(* A model of the ComfyUI API client: the prompt patcher (utils.py), the   *)
(* execution client (comfy_client.py: queue_prompt, get_history,           *)
(* wait_for_execution, get_images, save_images), the S3 upload helper and  *)
(* the input-image upload with its temporary file (utils.py).              *)
(*                                                                         *)
(* Text is modelled as a sequence of one-character strings where the code  *)
(* looks inside it (titles, environment values); Python dicts are modelled *)
(* as sequences of (key, value) records in insertion order.                *)
(***************************************************************************)
EXTENDS Integers, Sequences, FiniteSets, TLC

VARIABLES
    pc,          \* position of the single thread of control
    err,         \* the exception that ended the run, NoErr while none
    workflow,    \* the Workflow Document: <<[id, node], ...>> in document order
    prompt_text, \* args.prompt / the patcher's prompt_text argument
    prompt_id,   \* the submission handle returned by queue_prompt
    nQueue,      \* number of POST /prompt calls issued
    queueStatus, \* HTTP status of the answer to POST /prompt, 0 before it
    timeout,     \* wait_for_execution's timeout argument
    interval,    \* wait_for_execution's interval argument
    now,         \* the wall clock, time.time()
    start_time,  \* wait_for_execution's start_time
    polls,       \* number of GET /history calls issued
    history,     \* the answer to the last GET /history call
    outputs,     \* the value wait_for_execution returned
    reported,    \* how many answered polls reported non-empty outputs for the handle
    anyFailed,   \* whether some poll of this wait failed
    images,      \* get_images' images dict / save_images' argument
    node_images, \* get_images' node_images list
    ni,          \* index of the node being fetched or saved
    ii,          \* index of the image of that node
    fetches,     \* the artifact retrievals issued, in order
    result,      \* the value returned to the caller, NoResult while none
    env,         \* the environment value UPLOAD_TO_S3
    saved,       \* the local files written by save_images, in order
    uploaded,    \* the object keys put to S3, in order
    image_path,  \* upload_input_image's image_path argument
    upload_path, \* the path upload_input_image opens
    tempFiles    \* the temporary files that exist on disk

patchVars == <<workflow, prompt_text>>
queueVars == <<prompt_id, nQueue, queueStatus>>
waitVars == <<timeout, interval, now, start_time, polls, history, outputs, reported, anyFailed>>
fetchVars == <<images, node_images, ni, ii, fetches>>
saveVars == <<env, saved, uploaded>>
uploadVars == <<image_path, upload_path, tempFiles>>
vars == <<pc, err, result, patchVars, queueVars, waitVars, fetchVars, saveVars, uploadVars>>

NoErr == [kind |-> "none", origin |-> "none", code |-> 0]
NoResult == [kind |-> "none"]

Raise(kind, origin, code) == [kind |-> kind, origin |-> origin, code |-> code]

(***************************************************************************)
(* Text.                                                                   *)
(***************************************************************************)

\* str.lower() on one character, for the letters the model's texts use.
LowerChar(c) ==
    CASE c = "N" -> "n" [] c = "E" -> "e" [] c = "G" -> "g" [] c = "A" -> "a"
      [] c = "T" -> "t" [] c = "I" -> "i" [] c = "V" -> "v" [] c = "P" -> "p"
      [] c = "Y" -> "y" [] c = "S" -> "s" [] c = "R" -> "r" [] c = "U" -> "u"
      [] c = "O" -> "o"
      [] OTHER -> c

\* str.lower()
LowerStr(s) == [k \in 1..Len(s) |-> LowerChar(s[k])]

\* needle in s, for Python strings
Contains(needle, s) ==
    \E k \in 0..(Len(s) - Len(needle)) :
        \A j \in 1..Len(needle) : s[k + j] = needle[j]

S_negative == <<"n", "e", "g", "a", "t", "i", "v", "e">>

(***************************************************************************)
(* The Workflow Document and the prompt patcher (utils.py).                *)
(***************************************************************************)

T_None == << >>
T_Positive == <<"P", "o", "s", "i", "t", "i", "v", "e">>
T_Negative == <<"N", "e", "g", "a", "t", "i", "v", "e">>
T_MyNEGATIVE == <<"m", "y", " ", "N", "E", "G", "A", "T", "I", "V", "E">>
T_negative == <<"n", "e", "g", "a", "t", "i", "v", "e">>
T_Negativ == <<"N", "e", "g", "a", "t", "i", "v">>

\* A node record. isDict is isinstance(node, dict); hasMeta, hasTitle, hasInputs
\* and hasText say whether "_meta", "_meta"."title", "inputs" and
\* "inputs"."text" are present; clip stands for the node's other inputs.
MkNode(isDict, class_type, hasMeta, hasTitle, title, hasInputs, hasText) ==
    [isDict |-> isDict, class_type |-> class_type, hasMeta |-> hasMeta,
     hasTitle |-> hasTitle, title |-> title, hasInputs |-> hasInputs,
     hasText |-> hasText, text |-> "old", clip |-> "ref"]

NodeKinds ==
    { MkNode(FALSE, "none", FALSE, FALSE, T_None, FALSE, FALSE),
      MkNode(TRUE, "TextBox", FALSE, FALSE, T_None, TRUE, TRUE),
      MkNode(TRUE, "CLIPTextEncode", FALSE, FALSE, T_None, TRUE, TRUE),
      MkNode(TRUE, "CLIPTextEncode", TRUE, TRUE, T_Negative, TRUE, TRUE),
      MkNode(TRUE, "CLIPTextEncode", TRUE, TRUE, T_MyNEGATIVE, TRUE, TRUE),
      MkNode(TRUE, "CLIPTextEncode", TRUE, TRUE, T_Positive, TRUE, TRUE),
      MkNode(TRUE, "CLIPTextEncode", TRUE, TRUE, T_Positive, TRUE, FALSE),
      MkNode(TRUE, "CLIPTextEncode", TRUE, FALSE, T_None, FALSE, FALSE),
      MkNode(TRUE, "CLIPTextEncode", TRUE, TRUE, T_Negativ, TRUE, TRUE),
      MkNode(TRUE, "CLIPTextEncode", TRUE, TRUE, T_negative, TRUE, FALSE) }

\* The longest document of the patcher's specification.
MaxNodes == 3

NodeIds == <<"1", "2", "3", "4", "5">>

\* The documents with n nodes: node identifiers are unique, in document order.
DocsOfLen(n) == { [k \in 1..n |-> [id |-> NodeIds[k], node |-> f[k]]] : f \in [1..n -> NodeKinds] }

Docs == UNION { DocsOfLen(n) : n \in 0..MaxNodes }

Prompts == {"a cat", "a dog"}
NoPrompt == ""

\* node.get("_meta", {}).get("title", "")
TitleOf(node) == IF node.hasMeta /\ node.hasTitle THEN node.title ELSE << >>

\* A faulty variant of IsNegativeTitle that forgets .lower().
IsNegativeTitleNoLower(node) == Contains(S_negative, TitleOf(node))

\* title = node.get("_meta", {}).get("title", "").lower(); "negative" in title
IsNegativeTitle(node) == Contains(S_negative, LowerStr(TitleOf(node)))

\* inputs = node.get("inputs", {}); "text" in inputs
HasTextInput(node) == node.hasInputs /\ node.hasText

RECURSIVE ScanFrom(_, _, _)
\* The for loop of patch_prompt_text_node from the i-th node on: the patched
\* document when a node was patched (return), ok = FALSE when the loop ran
\* out (raise ValueError).
ScanFrom(wf, i, text) ==
    IF i > Len(wf)
    THEN [ok |-> FALSE, wf |-> wf]
    ELSE LET node == wf[i].node
         IN  IF node.isDict /\ node.class_type = "CLIPTextEncode"
             THEN IF IsNegativeTitle(node)
                  THEN ScanFrom(wf, i + 1, text)
                  ELSE IF HasTextInput(node)
                       THEN [ok |-> TRUE, wf |-> [wf EXCEPT ![i].node.text = text]]
                       ELSE ScanFrom(wf, i + 1, text)
             ELSE ScanFrom(wf, i + 1, text)

\* patch_prompt_text_node(workflow, prompt_text); in run_prompt_pipeline it is
\* called when args.prompt is non-empty, and get_images follows.
PatchPromptTextNode ==
    /\ pc = "Loaded"
    /\ prompt_text # NoPrompt
    /\ LET r == ScanFrom(workflow, 1, prompt_text)
       IN  IF r.ok
           THEN /\ workflow' = r.wf
                /\ pc' = "Created"
                /\ err' = err
           ELSE /\ workflow' = workflow
                /\ pc' = "raised"
                /\ err' = Raise("ValueError", "patch_prompt_text_node", 0)
    /\ UNCHANGED <<prompt_text, result, queueVars, waitVars, fetchVars, saveVars, uploadVars>>

\* run_prompt_pipeline with no --prompt: the patcher is not called.
SkipPatch ==
    /\ pc = "Loaded"
    /\ prompt_text = NoPrompt
    /\ pc' = "Created"
    /\ UNCHANGED <<err, result, patchVars, queueVars, waitVars, fetchVars, saveVars, uploadVars>>

(***************************************************************************)
(* Exceptions.                                                             *)
(***************************************************************************)

\* The base class of each exception class the code can meet (builtins,
\* urllib.error, json, botocore.exceptions, requests.exceptions).
Parent(cls) ==
    CASE cls = "HTTPError" -> "URLError"
      [] cls = "URLError" -> "OSError"
      [] cls = "FileNotFoundError" -> "OSError"
      [] cls = "TimeoutError" -> "OSError"
      [] cls = "RequestException" -> "OSError"
      [] cls = "JSONDecodeError" -> "ValueError"
      [] cls = "NoCredentialsError" -> "BotoCoreError"
      [] cls = "EndpointConnectionError" -> "BotoCoreError"
      [] cls = "ParamValidationError" -> "BotoCoreError"
      [] cls = "KeyError" -> "LookupError"
      [] cls = "Exception" -> "BaseException"
      [] OTHER -> "Exception"

RECURSIVE IsA(_, _)
\* isinstance(e, cls) for an exception e of class kind
IsA(kind, cls) ==
    IF kind = cls THEN TRUE
    ELSE IF kind = "BaseException" THEN FALSE
    ELSE IsA(Parent(kind), cls)

(***************************************************************************)
(* The server's answers.                                                   *)
(***************************************************************************)

PromptIds == {"p1", "p2"}
OtherId(pid) == IF pid = "p1" THEN "p2" ELSE "p1"
NoId == "none"

D_a == [filename |-> "a.png", subfolder |-> "", type |-> "output"]
D_b == [filename |-> "b.png", subfolder |-> "", type |-> "output"]
D_c == [filename |-> "c.png", subfolder |-> "sub", type |-> "temp"]

\* The content GET /view serves for a descriptor.
ServerBytes(d) == <<"bytes of", d.filename, d.subfolder, d.type>>

\* One node's output: output.get("images", []) is images when hasImages.
NodeOut(hasImages, imgs) == [hasImages |-> hasImages, images |-> imgs]

O_one == << [id |-> "9", out |-> NodeOut(TRUE, <<D_a>>)] >>
O_two == << [id |-> "9", out |-> NodeOut(TRUE, <<D_a, D_b>>)],
            [id |-> "12", out |-> NodeOut(TRUE, <<D_c>>)] >>
O_mixed == << [id |-> "3", out |-> NodeOut(FALSE, << >>)],
              [id |-> "9", out |-> NodeOut(TRUE, <<D_b, D_a>>)],
              [id |-> "12", out |-> NodeOut(TRUE, << >>)] >>

\* JSON values an "outputs" field can hold.
JNull == [t |-> "null", v |-> << >>]
JMap(m) == [t |-> "map", v |-> m]
JList(l) == [t |-> "list", v |-> l]

OutputValues == {JNull, JMap(<< >>), JList(<< >>), JMap(O_one), JMap(O_two), JMap(O_mixed), JList(<<D_a>>)}

\* A faulty variant of Truthy under which any value that is not None counts.
TruthyNotNone(x) == x.t # "null"

\* bool(x) for a JSON value: None, {} and [] are false.
Truthy(x) == x.t # "null" /\ Len(x.v) > 0

\* An answer to GET /history/{prompt_id}: an error of the transport or the
\* parser, or a JSON value. top is the type of the value; key the prompt id
\* it is keyed by (NoId: {}); entry the type of the value under that key.
HErr(kind) == [kind |-> kind, top |-> "none", key |-> NoId, entry |-> "none", hasOutputs |-> FALSE, outputs |-> JNull]
HJson(top, key, entry, hasOutputs, outs) == [kind |-> "json", top |-> top, key |-> key, entry |-> entry, hasOutputs |-> hasOutputs, outputs |-> outs]
NoHistory == HErr("none")

HistoryResponses(pid) ==
    { HErr("URLError"), HErr("HTTPError"), HErr("JSONDecodeError"),
      HJson("null", NoId, "none", FALSE, JNull),
      HJson("list", NoId, "none", FALSE, JNull),
      HJson("dict", NoId, "none", FALSE, JNull),
      HJson("dict", pid, "list", FALSE, JNull),
      HJson("dict", pid, "dict", FALSE, JNull),
      HJson("dict", OtherId(pid), "dict", TRUE, JMap(O_one)) }
    \cup { HJson("dict", pid, "dict", TRUE, x) : x \in OutputValues }

ErrorStatuses == {400, 500}

\* An answer to POST /prompt.
QueueResponses ==
    { [kind |-> "ok", status |-> 200, pid |-> p] : p \in PromptIds }
    \cup { [kind |-> "HTTPError", status |-> c, pid |-> NoId] : c \in ErrorStatuses }
    \cup { [kind |-> "URLError", status |-> 0, pid |-> NoId],
           [kind |-> "KeyError", status |-> 200, pid |-> NoId] }

(***************************************************************************)
(* The execution client (comfy_client.py).                                 *)
(***************************************************************************)

DefaultTimeout == 300
DefaultInterval == 5

\* The longest a poll takes to answer, and the longest time.sleep oversleeps,
\* in a direct call of wait_for_execution.
MaxLatency == 1
MaxOver == 1

\* In a run of get_images, under the default timeout, a poll answers (and a
\* sleep ends) at once or late by SlowDelay.
SlowDelay == 150
RunDelays == {0, SlowDelay}

\* A faulty variant of QueueOutcome that logs the HTTP error and returns None.
QueueOutcomeSwallow(resp) ==
    IF resp.kind = "ok"
    THEN [raised |-> FALSE, pid |-> resp.pid, err |-> NoErr]
    ELSE [raised |-> FALSE, pid |-> NoId, err |-> NoErr]

\* A faulty variant of QueueOutcome that raises a fresh error without the status code.
QueueOutcomeNoCode(resp) ==
    IF resp.kind = "ok"
    THEN [raised |-> FALSE, pid |-> resp.pid, err |-> NoErr]
    ELSE [raised |-> TRUE, pid |-> NoId, err |-> Raise("RuntimeError", "queue_prompt", 0)]

\* queue_prompt on the server's answer: the prompt id, or the exception that
\* leaves it (an HTTPError is logged and re-raised with its code).
QueueOutcome(resp) ==
    IF resp.kind = "ok"
    THEN [raised |-> FALSE, pid |-> resp.pid, err |-> NoErr]
    ELSE [raised |-> TRUE, pid |-> NoId, err |-> Raise(resp.kind, "queue_prompt", resp.status)]

\* get_images, line 63: prompt_id = self.queue_prompt(prompt), the one
\* POST /prompt of the run; then wait_for_execution(prompt_id) with its defaults.
QueuePrompt ==
    /\ pc = "Created"
    /\ \E resp \in QueueResponses :
          LET o == QueueOutcome(resp)
          IN  /\ nQueue' = nQueue + 1
              /\ queueStatus' = resp.status
              /\ prompt_id' = o.pid
              /\ err' = o.err
              /\ pc' = IF o.raised THEN "SubmissionFailed" ELSE "Submitted"
    /\ timeout' = DefaultTimeout
    /\ interval' = DefaultInterval
    /\ UNCHANGED <<result, patchVars, now, start_time, polls, history, outputs, reported, anyFailed, fetchVars, saveVars, uploadVars>>

\* wait_for_execution, line 47: start_time = time.time()
StartWait ==
    /\ pc = "Submitted"
    /\ start_time' = now
    /\ pc' = "loop"
    /\ UNCHANGED <<err, result, patchVars, queueVars, timeout, interval, now, polls, history, outputs, reported, anyFailed, fetchVars, saveVars, uploadVars>>

\* A faulty variant of WhileCond that gives up one time unit early.
WhileCondEarly(t, start, limit) == t - start < limit - 1

\* while time.time() - start_time < timeout
WhileCond(t, start, limit) == t - start < limit

\* The loop test of wait_for_execution: the next GET /history is issued, or
\* TimeoutError is raised.
LoopTest ==
    /\ pc = "loop"
    /\ IF WhileCond(now, start_time, timeout)
       THEN /\ polls' = polls + 1
            /\ pc' = "polling"
            /\ err' = err
       ELSE /\ polls' = polls
            /\ pc' = "TimedOut"
            /\ err' = Raise("TimeoutError", "wait_for_execution", 0)
    /\ UNCHANGED <<result, patchVars, queueVars, timeout, interval, now, start_time, history, outputs, reported, anyFailed, fetchVars, saveVars, uploadVars>>

\* What the answer h says, whatever the code makes of it: outputs are
\* reported for the handle when its entry holds a non-empty outputs field.
Reports(h, pid) ==
    /\ h.kind = "json" /\ h.top = "dict" /\ h.key = pid /\ h.entry = "dict"
    /\ h.hasOutputs /\ h.outputs.t # "null" /\ h.outputs.v # << >>

\* The poll failed: a transport or HTTP error, a body that is no JSON, or a
\* JSON value of an unexpected shape.
PollFailed(h, pid) ==
    \/ h.kind # "json"
    \/ h.top # "dict"
    \/ h.key = pid /\ h.entry # "dict"

\* A faulty variant of CaughtByWait for "except urllib.error.URLError".
CaughtOnlyURLError(kind) == IsA(kind, "URLError")

\* except Exception as e (line 56)
CaughtByWait(kind) == IsA(kind, "Exception")

\* A faulty variant of HasHandle that takes any entry of the answer for the handle's.
HasAnyEntry(h, pid) == h.key # NoId

\* prompt_id in history, for a history that is a dict
HasHandle(h, pid) == h.key = pid

\* Lines 52-57 on the answer h: get_history raises what the transport or the
\* parser raised; "prompt_id in history" raises TypeError on None and is
\* False on a list; .get raises AttributeError on an entry that is no dict;
\* the outputs are returned when .get("outputs") is truthy.
PollOutcome(h, pid) ==
    LET exc(kind) == IF CaughtByWait(kind)
                     THEN [res |-> "pending", val |-> JNull, exc |-> kind]
                     ELSE [res |-> "raise", val |-> JNull, exc |-> kind]
        pending == [res |-> "pending", val |-> JNull, exc |-> "none"]
    IN  IF h.kind # "json" THEN exc(h.kind)
        ELSE IF h.top = "null" THEN exc("TypeError")
        ELSE IF h.top = "list" THEN pending
        ELSE IF ~HasHandle(h, pid) THEN pending
        ELSE IF h.entry # "dict" THEN exc("AttributeError")
        ELSE IF ~h.hasOutputs THEN pending
        ELSE IF Truthy(h.outputs)
             THEN [res |-> "return", val |-> h.outputs, exc |-> "none"]
             ELSE pending

\* The answer to the poll in flight arrives after d time units, d among
\* delays, and lines 52-57 run on it: the wait returns the outputs, or goes
\* to sleep.
GetHistoryResponse(delays) ==
    /\ pc = "polling"
    /\ \E d \in delays, h \in HistoryResponses(prompt_id) :
          LET o == PollOutcome(h, prompt_id)
          IN  /\ now' = now + d
              /\ history' = h
              /\ reported' = reported + (IF Reports(h, prompt_id) THEN 1 ELSE 0)
              /\ anyFailed' = (anyFailed \/ PollFailed(h, prompt_id))
              /\ outputs' = IF o.res = "return" THEN o.val ELSE outputs
              /\ pc' = CASE o.res = "return" -> "Completed"
                         [] o.res = "pending" -> "sleeping"
                         [] OTHER -> "PollRaised"
              /\ err' = IF o.res = "raise" THEN Raise(o.exc, "get_history", 0) ELSE err
    /\ UNCHANGED <<result, patchVars, queueVars, timeout, interval, start_time, polls, fetchVars, saveVars, uploadVars>>

\* time.sleep(interval) (line 58), which may oversleep by o among overs
Sleep(overs) ==
    /\ pc = "sleeping"
    /\ \E o \in overs : now' = now + interval + o
    /\ pc' = "loop"
    /\ UNCHANGED <<err, result, patchVars, queueVars, timeout, interval, start_time, polls, history, outputs, reported, anyFailed, fetchVars, saveVars, uploadVars>>

\* images[key] = value on a dict kept in insertion order
DictPut(d, key, value) ==
    IF \E k \in 1..Len(d) : d[k].id = key
    THEN [k \in 1..Len(d) |-> IF d[k].id = key THEN [id |-> key, imgs |-> value] ELSE d[k]]
    ELSE Append(d, [id |-> key, imgs |-> value])

\* output.get("images", [])
ImagesOf(output) == IF output.hasImages THEN output.images ELSE << >>

RECURSIVE Advance(_, _, _, _, _)
\* The two for loops of get_images (lines 67-72) from the i-th image of the
\* n-th node up to the next call of get_image_file: a node whose images are
\* exhausted is stored (images[node_id] = node_images) and the next node
\* begun; done when the nodes are exhausted.
Advance(outs, imgs, n, i, nimgs) ==
    IF n > Len(outs)
    THEN [done |-> TRUE, images |-> imgs, ni |-> n, ii |-> 1, node_images |-> << >>]
    ELSE IF i > Len(ImagesOf(outs[n].out))
         THEN Advance(outs, DictPut(imgs, outs[n].id, nimgs), n + 1, 1, << >>)
         ELSE [done |-> FALSE, images |-> imgs, ni |-> n, ii |-> i, node_images |-> nimgs]

\* get_images, lines 65-69, once wait_for_execution returned: outputs.items()
\* raises AttributeError on outputs that are no dict.
BeginFetch ==
    /\ pc = "Completed"
    /\ IF outputs.t # "map"
       THEN /\ pc' = "raised"
            /\ err' = Raise("AttributeError", "get_images", 0)
            /\ UNCHANGED <<result, images, node_images, ni, ii>>
       ELSE LET a == Advance(outputs.v, << >>, 1, 1, << >>)
            IN  /\ images' = a.images
                /\ node_images' = a.node_images
                /\ ni' = a.ni
                /\ ii' = a.ii
                /\ pc' = IF a.done THEN "returned" ELSE "fetching"
                /\ result' = IF a.done
                             THEN [kind |-> "images", images |-> a.images, prompt_id |-> prompt_id]
                             ELSE result
                /\ err' = err
    /\ UNCHANGED <<patchVars, queueVars, waitVars, fetches, saveVars, uploadVars>>

RetrievalErrors == {"URLError", "HTTPError"}

\* A faulty variant of FetchFailure that skips an artifact it could not retrieve.
FetchFailureSkips(kind) == FALSE

\* Whether an exception of get_image_file leaves get_images (no try around line 70).
FetchFailure(kind) == TRUE

\* get_image_file for the next descriptor (lines 70-71), then the loops up
\* to the next retrieval or to return images, prompt_id (line 74).
GetImageFile ==
    /\ pc = "fetching"
    /\ LET d == ImagesOf(outputs.v[ni].out)[ii]
       IN  /\ fetches' = Append(fetches, d)
           /\ \E r \in {"ok"} \cup RetrievalErrors :
                 IF r # "ok" /\ FetchFailure(r)
                 THEN /\ pc' = "RetrievalFailed"
                      /\ err' = Raise(r, "get_image_file", 0)
                      /\ UNCHANGED <<result, images, node_images, ni, ii>>
                 ELSE LET got == IF r = "ok" THEN Append(node_images, ServerBytes(d)) ELSE node_images
                          a == Advance(outputs.v, images, ni, ii + 1, got)
                      IN  /\ images' = a.images
                          /\ node_images' = a.node_images
                          /\ ni' = a.ni
                          /\ ii' = a.ii
                          /\ pc' = IF a.done THEN "returned" ELSE "fetching"
                          /\ result' = IF a.done
                                       THEN [kind |-> "images", images |-> a.images, prompt_id |-> prompt_id]
                                       ELSE result
                          /\ err' = err
    /\ UNCHANGED <<patchVars, queueVars, waitVars, saveVars, uploadVars>>

(***************************************************************************)
(* The artifact sink: save_images (comfy_client.py), upload_to_s3 and      *)
(* str2bool (utils.py).                                                    *)
(***************************************************************************)

\* The value of an environment variable that is not set.
EnvUnset == <<"<unset>">>

EnvValues ==
    { EnvUnset, << >>, <<"n", "o">>, <<"0">>, <<"o", "n">>, <<"y", "e", "s">>,
      <<"Y", "E", "S">>, <<"T", "r", "u", "e">>, <<"1">>, <<"Y">> }

\* os.getenv(name, default)
GetEnv(value, default) == IF value = EnvUnset THEN default ELSE value

\* str(value).lower() in ("yes", "true", "1", "y")
Str2Bool(value) ==
    LowerStr(value) \in {<<"y", "e", "s">>, <<"t", "r", "u", "e">>, <<"1">>, <<"y">>}

\* s3_enabled = str2bool(os.getenv("UPLOAD_TO_S3", "no")); s3_config is the
\* dict of get_s3_config() when enabled, which is truthy.
S3Enabled == Str2Bool(GetEnv(env, <<"n", "o">>))

\* What boto3 does on an upload: the put succeeds, or the session, the
\* client or put_object raises.
UploadOutcomes ==
    {"ok", "NoCredentialsError", "EndpointConnectionError", "ParamValidationError",
     "ClientError", "ValueError"}

\* except (BotoCoreError, NoCredentialsError) as e (utils.py, line 83)
CaughtByUpload(kind) == IsA(kind, "BotoCoreError") \/ IsA(kind, "NoCredentialsError")

RECURSIVE NextImage(_, _, _)
\* The two for loops of save_images from the i-th image of the n-th node
\* up to the next image to save; done when the nodes are exhausted.
NextImage(imgs, n, i) ==
    IF n > Len(imgs) THEN [done |-> TRUE, ni |-> n, ii |-> 1]
    ELSE IF i > Len(imgs[n].imgs) THEN NextImage(imgs, n + 1, 1)
    ELSE [done |-> FALSE, ni |-> n, ii |-> i]

\* save_images, lines 84-91: the folder, the S3 settings, the first image.
SaveBegin ==
    /\ pc = "save_start"
    /\ LET a == NextImage(images, 1, 1)
       IN  /\ ni' = a.ni
           /\ ii' = a.ii
           /\ pc' = IF a.done THEN "saved" ELSE "saving"
    /\ UNCHANGED <<err, result, patchVars, queueVars, waitVars, images, node_images, fetches, saveVars, uploadVars>>

\* Lines 92-99 for one image: Image.open(...).save(local_path), which raises
\* on bytes that are no image; then the upload when S3 is enabled, the next
\* image otherwise.
SaveLocal ==
    /\ pc = "saving"
    /\ \E decoded \in BOOLEAN :
          IF ~decoded
          THEN /\ pc' = "raised"
               /\ err' = Raise("UnidentifiedImageError", "Image.open", 0)
               /\ UNCHANGED <<saved, ni, ii>>
          ELSE /\ saved' = Append(saved, <<"saved_images", prompt_id, images[ni].id, ii>>)
               /\ err' = err
               /\ IF S3Enabled
                  THEN /\ pc' = "uploading"
                       /\ UNCHANGED <<ni, ii>>
                  ELSE LET a == NextImage(images, ni, ii + 1)
                       IN  /\ ni' = a.ni
                           /\ ii' = a.ii
                           /\ pc' = IF a.done THEN "saved" ELSE "saving"
    /\ UNCHANGED <<result, patchVars, queueVars, waitVars, images, node_images, fetches, env, uploaded, uploadVars>>

\* Lines 100-109: upload_to_s3 for the image just saved. An exception its
\* except clause catches is logged; any other leaves save_images.
UploadToS3 ==
    /\ pc = "uploading"
    /\ \E r \in UploadOutcomes :
          IF r # "ok" /\ ~CaughtByUpload(r)
          THEN /\ pc' = "raised"
               /\ err' = Raise(r, "upload_to_s3", 0)
               /\ UNCHANGED <<uploaded, ni, ii>>
          ELSE /\ uploaded' = IF r = "ok"
                              THEN Append(uploaded, <<"comfyui", prompt_id, images[ni].id, ii>>)
                              ELSE uploaded
               /\ err' = err
               /\ LET a == NextImage(images, ni, ii + 1)
                  IN  /\ ni' = a.ni
                      /\ ii' = a.ii
                      /\ pc' = IF a.done THEN "saved" ELSE "saving"
    /\ UNCHANGED <<result, patchVars, queueVars, waitVars, images, node_images, fetches, env, saved, uploadVars>>

(***************************************************************************)
(* The input image: prepare_image_for_upload and upload_input_image        *)
(* (utils.py).                                                             *)
(***************************************************************************)

\* A path or URL: its scheme (urlparse), its base name, its extension
\* (os.path.splitext), whether a local file of that path exists, and whether
\* it is a temporary file.
MkPath(scheme, name, ext, exists) ==
    [scheme |-> scheme, name |-> name, ext |-> ext, exists |-> exists, temp |-> FALSE]

NoPath == MkPath("none", "none", "", FALSE)

ImagePaths ==
    { MkPath("", "cat.png", ".png", TRUE),
      MkPath("", "cat.png", ".png", FALSE),
      MkPath("", "cat", "", TRUE),
      MkPath("http", "cat.png", ".png", FALSE),
      MkPath("http", "cat", "", FALSE),
      MkPath("https", "cat.png", ".png", FALSE),
      MkPath("https", "cat", "", FALSE),
      MkPath("", "dog.jpg", ".jpg", TRUE),
      MkPath("http", "dog.jpg", ".jpg", FALSE),
      MkPath("ftp", "cat.png", ".png", FALSE) }

\* urlparse(image_path).scheme in ("http", "https")
IsUrl(path) == path.scheme \in {"http", "https"}

\* tempfile.NamedTemporaryFile(delete=False, suffix=suffix), with
\* suffix = os.path.splitext(image_path)[-1] or ".jpg"
TempFileFor(path) ==
    [scheme |-> "", name |-> "tmp", ext |-> IF path.ext = "" THEN ".jpg" ELSE path.ext,
     exists |-> TRUE, temp |-> TRUE]

\* prepare_image_for_upload, lines 104-107: a local path is returned as it
\* is; a URL is opened.
PrepareImage ==
    /\ pc = "upload_start"
    /\ IF ~IsUrl(image_path)
       THEN /\ upload_path' = image_path
            /\ pc' = "prepared"
            /\ err' = err
       ELSE \E r \in {"ok", "URLError", "HTTPError"} :
               /\ upload_path' = upload_path
               /\ pc' = IF r = "ok" THEN "url_open" ELSE "raised"
               /\ err' = IF r = "ok" THEN err ELSE Raise(r, "urlopen", 0)
    /\ UNCHANGED <<result, patchVars, queueVars, waitVars, fetchVars, saveVars, image_path, tempFiles>>

\* Lines 108-109: the temporary file is created (delete=False).
CreateTempFile ==
    /\ pc = "url_open"
    /\ \E r \in {"ok", "OSError"} :
          /\ tempFiles' = IF r = "ok" THEN tempFiles \cup {TempFileFor(image_path)} ELSE tempFiles
          /\ pc' = IF r = "ok" THEN "temp_created" ELSE "raised"
          /\ err' = IF r = "ok" THEN err ELSE Raise(r, "NamedTemporaryFile", 0)
    /\ UNCHANGED <<result, patchVars, queueVars, waitVars, fetchVars, saveVars, image_path, upload_path>>

\* Lines 110-112: temp_file.write(response.read()), close, return. An
\* exception of read or write leaves prepare_image_for_upload, and with it
\* upload_input_image, whose try begins only at line 126.
WriteTempFile ==
    /\ pc = "temp_created"
    /\ \E r \in {"ok", "read", "write"} :
          /\ pc' = IF r = "ok" THEN "prepared" ELSE "raised"
          /\ upload_path' = IF r = "ok" THEN TempFileFor(image_path) ELSE upload_path
          /\ err' = CASE r = "ok" -> err
                      [] r = "read" -> Raise("OSError", "response.read", 0)
                      [] OTHER -> Raise("OSError", "temp_file.write", 0)
    /\ UNCHANGED <<result, patchVars, queueVars, waitVars, fetchVars, saveVars, image_path, tempFiles>>

\* The finally clause, lines 135-138.
Cleanup(files) ==
    IF upload_path # image_path /\ upload_path \in files
    THEN files \ {upload_path}
    ELSE files

\* Line 127: open(upload_path, 'rb'), inside the try.
OpenUploadFile ==
    /\ pc = "prepared"
    /\ \E r \in {"ok", "OSError"} :
          LET missing == ~upload_path.temp /\ ~upload_path.exists
          IN  IF missing \/ r # "ok"
              THEN /\ pc' = "raised"
                   /\ err' = Raise(IF missing THEN "FileNotFoundError" ELSE r, "open", 0)
                   /\ tempFiles' = Cleanup(tempFiles)
              ELSE /\ pc' = "opened"
                   /\ err' = err
                   /\ tempFiles' = tempFiles
    /\ UNCHANGED <<result, patchVars, queueVars, waitVars, fetchVars, saveVars, image_path, upload_path>>

\* Lines 130-134 and the finally clause: the POST, raise_for_status (an
\* HTTPError with the status), response.json(), return. The server stores
\* the image under the name sent or under a name of its own.
PostImage ==
    /\ pc = "opened"
    /\ \E r \in {"ok", "RequestException", "HTTPError", "JSONDecodeError"},
          c \in ErrorStatuses, stored \in {image_path.name, "stored.png"} :
          /\ pc' = IF r = "ok" THEN "uploaded" ELSE "raised"
          /\ err' = IF r = "ok" THEN err ELSE Raise(r, "post", IF r = "HTTPError" THEN c ELSE 0)
          /\ result' = IF r = "ok" THEN [kind |-> "upload_info", name |-> stored] ELSE result
          /\ tempFiles' = Cleanup(tempFiles)
    /\ UNCHANGED <<patchVars, queueVars, waitVars, fetchVars, saveVars, image_path, upload_path>>

(***************************************************************************)
(* Specifications.                                                         *)
(***************************************************************************)

PatchIdle == workflow = << >> /\ prompt_text = NoPrompt
QueueIdle == prompt_id = NoId /\ nQueue = 0 /\ queueStatus = 0
WaitIdle ==
    /\ timeout = 0 /\ interval = 0 /\ now = 0 /\ start_time = 0 /\ polls = 0
    /\ history = NoHistory /\ outputs = JNull /\ reported = 0 /\ anyFailed = FALSE
FetchIdle == images = << >> /\ node_images = << >> /\ ni = 1 /\ ii = 1 /\ fetches = << >>
SaveIdle == env = << >> /\ saved = << >> /\ uploaded = << >>
UploadIdle == image_path = NoPath /\ upload_path = NoPath /\ tempFiles = {}

\* The documents of a run: one with a positive and a negative prompt node,
\* one with no eligible node.
RunDocs ==
    { << [id |-> "1", node |-> MkNode(TRUE, "CLIPTextEncode", TRUE, TRUE, T_Negative, TRUE, TRUE)],
         [id |-> "2", node |-> MkNode(TRUE, "CLIPTextEncode", TRUE, TRUE, T_Positive, TRUE, TRUE)] >>,
      << [id |-> "1", node |-> MkNode(TRUE, "TextBox", FALSE, FALSE, T_None, TRUE, TRUE)] >> }

\* run_prompt_pipeline after load_workflow, with or without --prompt.
Init ==
    /\ pc = "Loaded"
    /\ err = NoErr
    /\ result = NoResult
    /\ workflow \in RunDocs
    /\ prompt_text \in {NoPrompt, "a cat"}
    /\ QueueIdle /\ WaitIdle /\ FetchIdle /\ SaveIdle /\ UploadIdle

Next ==
    \/ PatchPromptTextNode
    \/ SkipPatch
    \/ QueuePrompt
    \/ StartWait
    \/ LoopTest
    \/ GetHistoryResponse(RunDelays)
    \/ Sleep(RunDelays)
    \/ BeginFetch
    \/ GetImageFile

Spec == Init /\ [][Next]_vars

\* The largest timeout and interval of a direct call of wait_for_execution.
MaxT == 4
MaxI == 3

\* wait_for_execution(prompt_id, timeout, interval) called on its own.
InitWait ==
    /\ pc = "Submitted"
    /\ err = NoErr
    /\ result = NoResult
    /\ PatchIdle /\ FetchIdle /\ SaveIdle /\ UploadIdle
    /\ prompt_id \in PromptIds /\ nQueue = 1 /\ queueStatus = 200
    /\ timeout \in 0..MaxT
    /\ interval \in 1..MaxI
    /\ now = 0 /\ start_time = 0 /\ polls = 0
    /\ history = NoHistory /\ outputs = JNull /\ reported = 0 /\ anyFailed = FALSE

NextWait ==
    \/ StartWait
    \/ LoopTest
    \/ GetHistoryResponse(0..MaxLatency)
    \/ Sleep(0..MaxOver)

SpecWait == InitWait /\ [][NextWait]_vars /\ WF_vars(NextWait)

\* The patcher called on any document.
InitPatch ==
    /\ pc = "Loaded"
    /\ err = NoErr
    /\ result = NoResult
    /\ workflow \in Docs
    /\ prompt_text \in Prompts
    /\ QueueIdle /\ WaitIdle /\ FetchIdle /\ SaveIdle /\ UploadIdle

NextPatch == PatchPromptTextNode

SpecPatch == InitPatch /\ [][NextPatch]_vars

\* Artifact mappings as get_images returns them.
SaveInputs ==
    { << >>,
      << [id |-> "9", imgs |-> <<ServerBytes(D_a)>>] >>,
      << [id |-> "9", imgs |-> <<ServerBytes(D_a), ServerBytes(D_b)>>],
         [id |-> "12", imgs |-> <<ServerBytes(D_c)>>] >>,
      << [id |-> "3", imgs |-> << >>],
         [id |-> "9", imgs |-> <<ServerBytes(D_b), ServerBytes(D_a)>>],
         [id |-> "12", imgs |-> << >>] >> }

\* save_images(images, prompt_id) on the artifacts of a completed run.
InitSave ==
    /\ pc = "save_start"
    /\ err = NoErr
    /\ result = NoResult
    /\ PatchIdle /\ WaitIdle /\ UploadIdle
    /\ prompt_id \in PromptIds /\ nQueue = 1 /\ queueStatus = 200
    /\ images \in SaveInputs
    /\ node_images = << >> /\ ni = 1 /\ ii = 1 /\ fetches = << >>
    /\ env \in EnvValues
    /\ saved = << >> /\ uploaded = << >>

NextSave ==
    \/ SaveBegin
    \/ SaveLocal
    \/ UploadToS3

SpecSave == InitSave /\ [][NextSave]_vars

\* upload_input_image(image_path, server_address) on a path or a URL.
InitUpload ==
    /\ pc = "upload_start"
    /\ err = NoErr
    /\ result = NoResult
    /\ PatchIdle /\ QueueIdle /\ WaitIdle /\ FetchIdle /\ SaveIdle
    /\ image_path \in ImagePaths
    /\ upload_path = NoPath
    /\ tempFiles = {}

NextUpload ==
    \/ PrepareImage
    \/ CreateTempFile
    \/ WriteTempFile
    \/ OpenUploadFile
    \/ PostImage

SpecUpload == InitUpload /\ [][NextUpload]_vars

(***************************************************************************)
(* Properties.                                                             *)
(***************************************************************************)

Waiting == {"loop", "polling", "sleeping"}

\* The answer h holds an outputs field under the handle's key.
HasOutputsField(h, pid) ==
    h.kind = "json" /\ h.top = "dict" /\ h.key = pid /\ h.entry = "dict" /\ h.hasOutputs

\* A JSON value that is empty: null, {} or [].
EmptyValue(x) == x.t = "null" \/ x.v = << >>

\* C1: when POST /prompt is answered with a non-2xx status, the run fails
\* with the HTTPError carrying that status, POST /prompt was issued once, and
\* no poll and no artifact retrieval is issued.
C1_SubmissionFailure ==
    (nQueue >= 1 /\ queueStatus # 0 /\ queueStatus \notin 200..299)
        => /\ pc = "SubmissionFailed"
           /\ err.kind = "HTTPError"
           /\ err.code = queueStatus
           /\ nQueue = 1
           /\ polls = 0
           /\ fetches = << >>
           /\ result = NoResult

C1_Witness == pc = "SubmissionFailed" /\ queueStatus = 500 /\ workflow[Len(workflow)].node.text = "a cat"

\* C2: the wait returns the outputs of the first poll that reports non-empty
\* outputs for the handle: while it waits (or once it timed out) no poll has
\* reported any, the value returned is the one of the last poll, which is the
\* only one that reported, and no poll is issued after that one.
C2_FirstReportingPollReturns ==
    /\ [](pc \in Waiting \cup {"TimedOut"} => reported = 0)
    /\ [](pc \in {"Completed", "fetching", "returned", "RetrievalFailed"}
            => /\ reported = 1
               /\ Reports(history, prompt_id)
               /\ outputs = history.outputs)
    /\ [][(reported >= 1) => (polls' = polls)]_vars

C2_Witness == pc = "returned" /\ polls = 3 /\ anyFailed /\ Len(fetches) = 3

\* C3 as stated: a wait that timed out has issued at least floor(T/I) polls.
C3_FloorPolls == pc = "TimedOut" => polls >= timeout \div interval

\* C3, amended: a wait whose polls never report outputs ends with
\* TimeoutError, only once at least T has elapsed, and has issued at least
\* T / (I + MaxLatency + MaxOver) polls by then, each poll taking at most
\* MaxLatency and each sleep at most I + MaxOver.
C3_TimeoutBound ==
    /\ [](pc = "TimedOut"
            => /\ reported = 0
               /\ err.kind = "TimeoutError"
               /\ now - start_time >= timeout
               /\ polls * (interval + MaxLatency + MaxOver) >= timeout)
    /\ <>(reported > 0 \/ pc = "TimedOut")

C3_Witness == pc = "TimedOut" /\ polls = 2 /\ timeout = MaxT /\ interval = 1

\* C4: a failed poll is followed by the sleep and the next loop test; the
\* wait ends only by a poll that reports outputs, whose outputs it returns
\* however many polls failed before, or by the timeout.
C4_FailedPollNeverEndsWait ==
    /\ [][(pc = "polling" /\ PollFailed(history', prompt_id)) => pc' = "sleeping"]_vars
    /\ [][(pc = "sleeping") => (pc' = "loop" /\ now' >= now + interval)]_vars
    /\ [][(pc = "polling" /\ Reports(history', prompt_id))
            => (pc' = "Completed" /\ outputs' = history'.outputs)]_vars
    /\ [][(pc \in Waiting /\ pc' \notin Waiting)
            => \/ pc' = "Completed" /\ Reports(history', prompt_id)
               \/ pc' = "TimedOut" /\ now - start_time >= timeout]_vars

C4_Witness == pc = "Completed" /\ anyFailed /\ polls = 3 /\ history.outputs = JMap(O_two)

\* C5 as stated: an answer whose entry for the handle has an outputs field,
\* whatever its value, completes the wait.
C5_AnyOutputsFieldCompletes ==
    HasOutputsField(history, prompt_id) => (pc = "Completed" /\ outputs = history.outputs)

\* C5, amended: an answer whose entry for the handle has a non-empty outputs
\* field completes the wait, which returns that value; an outputs field that
\* is null, {} or [] is treated as pending.
C5_NonEmptyOutputsCompletes ==
    HasOutputsField(history, prompt_id)
        => IF EmptyValue(history.outputs)
           THEN pc \in Waiting \cup {"TimedOut"}
           ELSE pc = "Completed" /\ outputs = history.outputs

C5_Witness == pc = "Completed" /\ outputs = JList(<<D_a>>) /\ polls = 1

\* The artifact mapping a complete fetch of the outputs outs yields: one
\* entry per node, holding the served bytes of its descriptors in order.
ExpectedImages(outs) ==
    [k \in 1..Len(outs) |->
        [id |-> outs[k].id,
         imgs |-> [j \in 1..Len(ImagesOf(outs[k].out)) |-> ServerBytes(ImagesOf(outs[k].out)[j])]]]

RECURSIVE AllDescriptors(_, _)
\* The descriptors of the nodes of outs from the n-th on, node after node.
AllDescriptors(outs, n) ==
    IF n > Len(outs) THEN << >>
    ELSE ImagesOf(outs[n].out) \o AllDescriptors(outs, n + 1)

IsPrefix(p, q) == Len(p) <= Len(q) /\ \A k \in 1..Len(p) : p[k] = q[k]

\* C6: a fetch that returns has retrieved every descriptor of the outputs
\* once, in order, and returns one entry per node with the bytes of its
\* descriptors in their order; a fetch in which a retrieval failed returns
\* nothing, and its retrievals are those up to the failed one.
C6_FetchAllOrNothing ==
    /\ pc = "returned"
         => /\ result.kind = "images"
            /\ result.images = ExpectedImages(outputs.v)
            /\ result.prompt_id = prompt_id
            /\ fetches = AllDescriptors(outputs.v, 1)
    /\ pc \in {"fetching", "RetrievalFailed"}
         => /\ result = NoResult
            /\ IsPrefix(fetches, AllDescriptors(outputs.v, 1))
    /\ pc = "RetrievalFailed"
         => /\ fetches # << >>
            /\ err.origin = "get_image_file"
            /\ Len(fetches) = Len(node_images) + 1
                   + Len(AllDescriptors(SubSeq(outputs.v, 1, ni - 1), 1))

C6_Witness ==
    /\ pc = "RetrievalFailed"
    /\ outputs = JMap(O_two)
    /\ Len(fetches) = 2
    /\ node_images = <<ServerBytes(D_a)>>

\* The state of the submission in the state machine of the specification.
Phase ==
    CASE pc \in {"Loaded", "Created"} -> "Created"
      [] pc = "SubmissionFailed" -> "SubmissionFailed"
      [] pc \in {"Submitted"} \cup Waiting -> IF history = NoHistory THEN "Submitted" ELSE "Pending"
      [] pc = "TimedOut" -> "TimedOut"
      [] pc \in {"Completed", "fetching", "returned", "RetrievalFailed"} -> "Completed"
      [] pc = "raised" -> IF nQueue = 0 THEN "NotSubmitted" ELSE "Completed"
      [] OTHER -> "Unknown"

PhaseSteps ==
    { <<"Created", "NotSubmitted">>, <<"Created", "Submitted">>, <<"Created", "SubmissionFailed">>,
      <<"Submitted", "Pending">>, <<"Submitted", "Completed">>, <<"Submitted", "TimedOut">>,
      <<"Pending", "Completed">>, <<"Pending", "TimedOut">> }

\* C9: one run issues at most one POST /prompt; polls only once it succeeded;
\* retrievals only once a poll reported outputs; the document is not changed
\* from the submission on; the submission moves only along Created ->
\* Submitted -> Pending* -> Completed | TimedOut or Created ->
\* SubmissionFailed; and once it is Completed, TimedOut or SubmissionFailed
\* no POST /prompt and no poll is issued.
C9_SubmissionStateMachine ==
    /\ [](nQueue <= 1)
    /\ [](polls > 0 => (nQueue = 1 /\ queueStatus = 200 /\ prompt_id \in PromptIds))
    /\ [](fetches # << >> => (reported >= 1 /\ outputs = history.outputs))
    /\ [](Phase # "Unknown")
    /\ [][(nQueue' >= 1) => (workflow' = workflow)]_vars
    /\ [][(Phase' # Phase) => (<<Phase, Phase'>> \in PhaseSteps)]_vars
    /\ [][(Phase \in {"Completed", "TimedOut", "SubmissionFailed"})
            => (nQueue' = nQueue /\ polls' = polls)]_vars

C9_Witness ==
    /\ pc = "returned"
    /\ nQueue = 1
    /\ polls = 2
    /\ Len(fetches) = 3
    /\ Len(workflow) = 2
    /\ workflow[2].node.text = "a cat"

\* The same letter in either case.
SameLetter(a, b) ==
    \/ a = b
    \/ <<a, b>> \in {<<"N", "n">>, <<"E", "e">>, <<"G", "g">>, <<"A", "a">>,
                     <<"T", "t">>, <<"I", "i">>, <<"V", "v">>}

\* The title holds "negative" in some letter case.
NegativeTitled(node) ==
    /\ node.hasMeta /\ node.hasTitle
    /\ \E k \in 0..(Len(node.title) - 8) :
          \A j \in 1..8 : SameLetter(node.title[k + j], S_negative[j])

\* The nodes the prompt patcher may patch.
Eligible(node) ==
    /\ node.isDict
    /\ node.class_type = "CLIPTextEncode"
    /\ ~NegativeTitled(node)
    /\ node.hasInputs /\ node.hasText

\* C7: the patcher overwrites the text input of the first eligible node and
\* leaves every other node and field as they were, creating none; with no
\* eligible node it raises ValueError and leaves the document as it was.
C7_PatchesFirstEligible ==
    [][(pc = "Loaded" /\ prompt_text # NoPrompt) =>
        LET el == {k \in 1..Len(workflow) : Eligible(workflow[k].node)}
        IN  IF el = {}
            THEN /\ pc' = "raised"
                 /\ err'.kind = "ValueError"
                 /\ workflow' = workflow
            ELSE LET m == CHOOSE k \in el : \A l \in el : k <= l
                 IN  /\ pc' = "Created"
                     /\ Len(workflow') = Len(workflow)
                     /\ \A k \in 1..Len(workflow) : k # m => workflow'[k] = workflow[k]
                     /\ workflow'[m].id = workflow[m].id
                     /\ workflow'[m].node = [workflow[m].node EXCEPT !.text = prompt_text]
                     /\ ~NegativeTitled(workflow'[m].node)]_vars

C7_Witness ==
    /\ pc = "Created"
    /\ Len(workflow) = 3
    /\ workflow[1].node.title = T_MyNEGATIVE
    /\ workflow[1].node.text = "old"
    /\ workflow[2].node.text = "a dog"
    /\ workflow[3].node.title = T_Positive
    /\ workflow[3].node.text = "old"

\* The number of artifacts of a mapping.
RECURSIVE CountImages(_, _)
CountImages(imgs, n) ==
    IF n > Len(imgs) THEN 0 ELSE Len(imgs[n].imgs) + CountImages(imgs, n + 1)

\* C8: no failure of a remote upload leaves save_images; with every image
\* decodable, the save ends normally with every artifact saved locally.
C8_UploadFailureSwallowed ==
    /\ ~(pc = "raised" /\ err.origin = "upload_to_s3")
    /\ pc = "saved" => Len(saved) = CountImages(images, 1)

\* C10: when the input image is a URL, no temporary file exists once
\* upload_input_image has returned or raised.
C10_TempFileRemoved ==
    (pc \in {"uploaded", "raised"} /\ IsUrl(image_path)) => tempFiles = {}

====
